---- MODULE Spec2Model ----
(***************************************************************************)
(* Model of the diagnostic pipeline of the Solidity language server        *)
(* (src/src/linter/solhint.ts, lines 94-372: the server script) and of the *)
(* rule configuration of the solhint linter (lines 49-92).                 *)
(*                                                                         *)
(* One step of the model is one macrotask of the single-threaded event     *)
(* loop: a notification handler, a timer callback, or the settlement of a  *)
(* promise together with the chain of .then callbacks that run as          *)
(* microtasks before any other macrotask.                                  *)
(***************************************************************************)
EXTENDS Integers, Sequences, FiniteSets, Bags, TLC

(***************************************************************************)
(* Bounds of the model.                                                    *)
(***************************************************************************)
MaxPending == 2     \* timers, compiles and initialisations outstanding at once
MaxReads == 2       \* reads of the project config file unsettled at once
MaxLists == 3       \* argument lists of one mergeErrors call

(***************************************************************************)
(* Documents, texts and diagnostics.                                       *)
(***************************************************************************)
Uris == {"file:///a.sol", "file:///b.sol"}

Texts == {"clean", "warn"}

\* Files.uriToFilePath: strips the scheme of a file URI.
fileOf(uri) == IF uri = "file:///a.sol" THEN "/a.sol" ELSE "/b.sol"

Paths == {fileOf(u) : u \in Uris}

\* What the compiler may resolve with (a black box: any of these).
CompileOutputs == {<<>>, <<"c1">>}

LinterNames == {"solhint", "solium", "none"}

Snaps == {"live"} \cup Texts

\* A document object as a callback captured it: "live" while the object is
\* the one the document manager updates, the text it was left with once the
\* document was closed (a closed object is never updated again).
DocRef(uri, snap) == [uri |-> uri, snap |-> snap]

\* A debounce timer or a compile promise: the document it captured and the
\* whole-workspace pass that started it (0: a content change did).
Task(doc, pass) == [uri |-> doc.uri, snap |-> doc.snap, pass |-> pass]

Tasks == [uri : Uris, snap : Snaps, pass : 0..MaxPending]

Compiles == [uri : Uris, snap : Snaps, pass : 0..MaxPending, code : Texts]

DocOf(k) == DocRef(k.uri, k.snap)

\* The compile promise that the task k started by passing code to the compiler.
Compile(k, code) ==
    [uri |-> k.uri, snap |-> k.snap, pass |-> k.pass, code |-> code]

NoMsg == [uri |-> "", diagnostics |-> <<>>, kind |-> "none"]

VARIABLES
    documents,                      \* open documents, in the order they were opened
    text,                           \* current text of each document
    linter,                         \* active linter variant
    enabledAsYouTypeErrorCheck,
    validatingDocument,
    validatingAllDocuments,
    lastCompileErrorsForDocument,   \* object keyed by file path
    timers,                         \* bag of debounce timers (the captured document)
    compiles,                       \* bag of unsettled compile promises
    joins,                          \* passes whose Promise.all is attached and unsettled
    inits,                          \* unsettled intialiseCompiler promises
    throttleOpen,                   \* a throttle window is running
    throttlePending,                \* sequence of at most one coalesced call
    ev,                             \* what the last step did (history)
    DEFAULT_RULES,                  \* ValidationConfig.DEFAULT_RULES (a shared object)
    ideRules,                       \* of the linter's ValidationConfig
    fileConfig,                     \* of the linter's ValidationConfig
    reads,                          \* unsettled fs.readFile calls of that config
    built,                          \* what the last build() returned
    rev                             \* what the last step on the rules did (history)

serverVars == <<documents, text, linter, enabledAsYouTypeErrorCheck,
                validatingDocument, validatingAllDocuments,
                lastCompileErrorsForDocument, timers, compiles, joins, inits,
                throttleOpen, throttlePending, ev>>

ruleVars == <<DEFAULT_RULES, ideRules, fileConfig, reads, built, rev>>

vars == <<serverVars, ruleVars>>

NoDoc == [uri |-> "", snap |-> ""]

NoEv == [op |-> "init", doc |-> NoDoc, sent |-> NoMsg, invoked |-> 0,
         fail |-> "none", skipped |-> FALSE, code |-> "", args |-> <<>>]

\* op: the step; doc: the document object it was about; sent: the message it
\* published; invoked: how often it called the compiler; fail: how a compile
\* failed in it; skipped: validateAllDocuments found its guard set; code: the
\* text that the compile which settled in it had been given; args: the
\* arguments of a step whose claims are about them.
Event(op, doc, sent, invoked, fail, skipped) ==
    [op |-> op, doc |-> doc, sent |-> sent, invoked |-> invoked,
     fail |-> fail, skipped |-> skipped, code |-> "", args |-> <<>>]

(***************************************************************************)
(* Pure helpers of the server script.                                      *)
(***************************************************************************)
\* A JavaScript value that is an array or null/undefined.
Arr(l) == [null |-> FALSE, list |-> l]
Null == [null |-> TRUE, list |-> <<>>]

\* reduce((prev, curErrors) => prev.concat(curErrors), []): concat appends
\* the entries of an array, and a value that is no array as one entry.
RECURSIVE Concat(_)
Concat(ls) ==
    IF ls = <<>> THEN <<>>
    ELSE (IF Head(ls).null THEN <<"null">> ELSE Head(ls).list) \o Concat(Tail(ls))

KeepsList(i) == ~i.null /\ Len(i.list) > 0

\* Mutation: the lists are not filtered.
mergeErrorsUnfiltered(errors) == Concat(errors)

mergeErrors(errors) == Concat(SelectSeq(errors, KeepsList))

\* document.getText() on a captured document object, the texts being txt.
getText(txt, doc) == IF doc.snap = "live" THEN txt[doc.uri] ELSE doc.snap

\* linter.validate: a black box, the same diagnostics for the same text.
LinterValidate(t) == IF t = "warn" THEN <<"lint-warn">> ELSE <<>>

lintFile(txt, doc) ==
    IF linter = "none" THEN <<>> ELSE LinterValidate(getText(txt, doc))

lastCompileErrorsOf(doc) ==
    IF fileOf(doc.uri) \in DOMAIN lastCompileErrorsForDocument
    THEN lastCompileErrorsForDocument[fileOf(doc.uri)]
    ELSE <<>>

\* Mutation: the cache is replaced by an object holding the one entry.
storeCompileErrorsInFreshObject(doc, errors) ==
    [p \in {fileOf(doc.uri)} |-> errors]

storeCompileErrors(doc, errors) ==
    [p \in DOMAIN lastCompileErrorsForDocument \cup {fileOf(doc.uri)} |->
        IF p = fileOf(doc.uri) THEN errors ELSE lastCompileErrorsForDocument[p]]

sendDiagnostics(uri, diagnosticsList, kind) ==
    [uri |-> uri, diagnostics |-> mergeErrors(diagnosticsList), kind |-> kind]

\* The argument lists of the two publishing call sites.
LintPublishArgs(txt, doc) ==
    <<Arr(lintFile(txt, doc)), Arr(lastCompileErrorsOf(doc))>>

appendLinterErrors(doc, errors) == <<Arr(errors), Arr(lintFile(text, doc))>>

(***************************************************************************)
(* Bags of tasks: the number of tasks of each kind that has any.           *)
(***************************************************************************)
NoTasks == [k \in {} |-> 0]

Count(b, k) == IF k \in DOMAIN b THEN b[k] ELSE 0

RECURSIVE SumOver(_, _)
SumOver(b, ks) ==
    IF ks = {} THEN 0
    ELSE LET k == CHOOSE x \in ks : TRUE IN b[k] + SumOver(b, ks \ {k})

Size(b) == SumOver(b, DOMAIN b)

Inc(b, k) == [j \in DOMAIN b \cup {k} |-> Count(b, j) + IF j = k THEN 1 ELSE 0]

Dec(b, k) ==
    [j \in {x \in DOMAIN b : x # k \/ b[x] > 1} |-> b[j] - IF j = k THEN 1 ELSE 0]

\* The task after the document manager dropped the object of uri: what
\* captured it now holds an object that keeps its last text.
FreezeTask(k, uri) ==
    IF k.uri = uri /\ k.snap = "live" THEN [k EXCEPT !.snap = text[uri]] ELSE k

Freeze(b, uri) ==
    [j \in {FreezeTask(k, uri) : k \in DOMAIN b} |->
        SumOver(b, {k \in DOMAIN b : FreezeTask(k, uri) = j})]

FreezeDoc(doc, uri) ==
    IF doc.uri = uri /\ doc.snap = "live" THEN DocRef(uri, text[uri]) ELSE doc

Range(s) == {s[i] : i \in 1..Len(s)}

Remove(s, x) == SelectSeq(s, LAMBDA y : y # x)

\* The asynchronous operations outstanding.
Pending == Size(timers) + Size(compiles) + inits

(***************************************************************************)
(* Whole-workspace passes.                                                 *)
(***************************************************************************)
PassesIn(b) == {k.pass : k \in DOMAIN b} \ {0}

ActivePasses == joins \cup PassesIn(compiles)

FreePasses == (1..MaxPending) \ ActivePasses

FreePass == CHOOSE p \in FreePasses : \A q \in FreePasses : p <= q

(***************************************************************************)
(* ValidationConfig: the rule configuration of the solhint linter.  A rule *)
(* object is a function from the rule keys it holds to their values.       *)
(***************************************************************************)
RuleKeys == {"func-visibility", "b"}

RuleObjects == UNION {[S -> BOOLEAN] : S \in SUBSET RuleKeys}

EmptyRules == [k \in {} |-> TRUE]

\* The literal that initialises ValidationConfig.DEFAULT_RULES.
BuiltInDefaults == [k \in {"func-visibility"} |-> FALSE]

\* ValidationConfig.EMPTY_CONFIG
EMPTY_CONFIG == [kind |-> "config", rules |-> EmptyRules]

\* fileConfig after fs.readFile failed: (!err) && ... is false.
FailedConfig == [kind |-> "false", rules |-> EmptyRules]

\* fileConfig after the file held the JSON text null.
NullConfig == [kind |-> "null", rules |-> EmptyRules]

FileConfigs ==
    {FailedConfig, NullConfig} \cup {[kind |-> "config", rules |-> r] : r \in RuleObjects}

\* The content of the project config file, named by what JSON.parse makes of
\* it: an object with these rules, null, or a SyntaxError.
Unparsable == [kind |-> "unparsable", rules |-> EmptyRules]

FileData == (FileConfigs \ {FailedConfig}) \cup {Unparsable}

JSONParseThrows(data) == data.kind = "unparsable"

JSONParse(data) == [kind |-> data.kind, rules |-> data.rules]

\* fileConfig.rules, a missing property being no source for Object.assign.
RulesOf(config) == IF config.kind = "config" THEN config.rules ELSE EmptyRules

\* Object.assign(target, source): the target with the source's keys written over it.
Assign(target, source) ==
    [k \in DOMAIN target \cup DOMAIN source |->
        IF k \in DOMAIN source THEN source[k] ELSE target[k]]

RulesInit ==
    /\ DEFAULT_RULES = BuiltInDefaults
    /\ ideRules = EmptyRules
    /\ fileConfig = EMPTY_CONFIG
    /\ reads = 1
    /\ built = EmptyRules
    /\ rev = "new"

\* setIdeRules(rules): rules || {}
setIdeRules(isNull, rules) ==
    /\ ideRules' = IF isNull THEN EmptyRules ELSE rules
    /\ rev' = "setIdeRules"
    /\ UNCHANGED serverVars
    /\ UNCHANGED <<DEFAULT_RULES, fileConfig, reads, built>>

\* What build() assigns into: the first argument of Object.assign.
BuildTarget == DEFAULT_RULES

\* this.fileConfig.rules throws a TypeError when fileConfig is null.
BuildThrows == fileConfig.kind = "null"

\* build(): Object.assign writes into its first argument and returns it; its
\* arguments are evaluated before it writes anything.
build ==
    /\ IF BuildThrows
       THEN /\ rev' = "build threw"
            /\ UNCHANGED <<built, DEFAULT_RULES>>
       ELSE /\ built' = Assign(Assign(BuildTarget, ideRules), RulesOf(fileConfig))
            /\ DEFAULT_RULES' = built'
            /\ rev' = "build"
    /\ UNCHANGED serverVars
    /\ UNCHANGED <<ideRules, fileConfig, reads>>

\* readFileConfig, when the watched file changed.
readFileConfig ==
    /\ reads < MaxReads
    /\ fileConfig' = EMPTY_CONFIG
    /\ reads' = reads + 1
    /\ rev' = "readFileConfig"
    /\ UNCHANGED serverVars
    /\ UNCHANGED <<DEFAULT_RULES, ideRules, built>>

\* onConfigLoaded(err, data): (!err) && JSON.parse(data).  An exception of
\* JSON.parse leaves the callback before the assignment.
onConfigLoaded(err, data) ==
    /\ reads > 0
    /\ reads' = reads - 1
    /\ IF err
       THEN fileConfig' = FailedConfig /\ rev' = "onConfigLoaded"
       ELSE IF JSONParseThrows(data)
       THEN fileConfig' = fileConfig /\ rev' = "onConfigLoaded threw"
       ELSE fileConfig' = JSONParse(data) /\ rev' = "onConfigLoaded"
    /\ UNCHANGED serverVars
    /\ UNCHANGED <<DEFAULT_RULES, ideRules, built>>

\* new SolhintService(rootPath, rules), then linter.setIdeRules(rules), on a
\* configuration change: the reads of the instance it replaces no longer
\* reach the linter.
NewSolhintService(isNull, rules) ==
    /\ ideRules' = IF isNull THEN EmptyRules ELSE rules
    /\ fileConfig' = EMPTY_CONFIG
    /\ reads' = 1
    /\ rev' = "new"
    /\ UNCHANGED serverVars
    /\ UNCHANGED <<DEFAULT_RULES, built>>

NextRules ==
    \/ \E rules \in RuleObjects : setIdeRules(FALSE, rules)
    \/ setIdeRules(TRUE, EmptyRules)
    \/ build
    \/ readFileConfig
    \/ \E data \in FileData : onConfigLoaded(FALSE, data)
    \/ onConfigLoaded(TRUE, Unparsable)
    \/ \E rules \in RuleObjects : NewSolhintService(FALSE, rules)
    \/ NewSolhintService(TRUE, EmptyRules)

(***************************************************************************)
(* Initial state: the server after onInitialize.                           *)
(***************************************************************************)
Init ==
    /\ documents = <<>>
    /\ text = [u \in Uris |-> "clean"]
    /\ linter = "solhint"
    /\ enabledAsYouTypeErrorCheck = FALSE
    /\ validatingDocument = FALSE
    /\ validatingAllDocuments = FALSE
    /\ lastCompileErrorsForDocument = <<>>
    /\ timers = NoTasks
    /\ compiles = NoTasks
    /\ joins = {}
    /\ inits = 0
    /\ throttleOpen = FALSE
    /\ throttlePending = <<>>
    /\ ev = NoEv
    /\ RulesInit

(***************************************************************************)
(* lintAndSendDiagnostics = throttle(100, ...): the first call of a window *)
(* runs at once; a call inside the window replaces the coalesced call,     *)
(* which runs when the window ends and opens the next window.              *)
(***************************************************************************)
LintPublish(txt, doc) ==
    sendDiagnostics(doc.uri, LintPublishArgs(txt, doc), "lint")

ThrottleCall(txt, doc) ==
    IF throttleOpen
    THEN [open |-> TRUE, pending |-> <<doc>>, sent |-> NoMsg]
    ELSE [open |-> TRUE, pending |-> throttlePending, sent |-> LintPublish(txt, doc)]

ThrottleWindowEnd ==
    /\ throttleOpen
    /\ throttleOpen' = (throttlePending # <<>>)
    /\ throttlePending' = <<>>
    /\ ev' = Event("throttle",
                   IF throttlePending = <<>> THEN NoDoc ELSE throttlePending[1],
                   IF throttlePending = <<>> THEN NoMsg
                   ELSE LintPublish(text, throttlePending[1]),
                   0, "none", FALSE)
    /\ UNCHANGED ruleVars
    /\ UNCHANGED <<documents, text, linter, enabledAsYouTypeErrorCheck,
                   validatingDocument, validatingAllDocuments,
                   lastCompileErrorsForDocument, timers, compiles, joins, inits>>

(***************************************************************************)
(* documents.onDidChangeContent                                            *)
(***************************************************************************)
MayScheduleCompile == ~validatingDocument /\ ~validatingAllDocuments

\* Mutation: the throttled lint is called inside the guarded branch.
onDidChangeContentLintWhenIdle(op, uri, txt) ==
    LET doc == DocRef(uri, "live")
        th == IF MayScheduleCompile THEN ThrottleCall(txt, doc)
              ELSE [open |-> throttleOpen, pending |-> throttlePending, sent |-> NoMsg]
    IN  /\ MayScheduleCompile => Pending < MaxPending
        /\ validatingDocument' = (validatingDocument \/ MayScheduleCompile)
        /\ timers' = IF MayScheduleCompile THEN Inc(timers, Task(doc, 0)) ELSE timers
        /\ throttleOpen' = th.open
        /\ throttlePending' = th.pending
        /\ ev' = Event(op, doc, th.sent, 0, "none", FALSE)
        /\ UNCHANGED ruleVars
        /\ UNCHANGED <<linter, enabledAsYouTypeErrorCheck, validatingAllDocuments,
                       lastCompileErrorsForDocument, compiles, joins, inits>>

onDidChangeContent(op, uri, txt) ==
    LET doc == DocRef(uri, "live")
        th == ThrottleCall(txt, doc)
    IN  /\ MayScheduleCompile => Pending < MaxPending
        /\ validatingDocument' = (validatingDocument \/ MayScheduleCompile)
        /\ timers' = IF MayScheduleCompile THEN Inc(timers, Task(doc, 0)) ELSE timers
        /\ throttleOpen' = th.open
        /\ throttlePending' = th.pending
        /\ ev' = Event(op, doc, th.sent, 0, "none", FALSE)
        /\ UNCHANGED ruleVars
        /\ UNCHANGED <<linter, enabledAsYouTypeErrorCheck, validatingAllDocuments,
                       lastCompileErrorsForDocument, compiles, joins, inits>>

\* The document manager opens a document and reports its content as changed.
DidOpen(uri, t) ==
    /\ uri \notin Range(documents)
    /\ documents' = Append(documents, uri)
    /\ text' = [text EXCEPT ![uri] = t]
    /\ onDidChangeContent("open", uri, text')

DidChangeContent(uri, t) ==
    /\ uri \in Range(documents)
    /\ documents' = documents
    /\ text' = [text EXCEPT ![uri] = t]
    /\ onDidChangeContent("change", uri, text')

(***************************************************************************)
(* documents.onDidClose                                                    *)
(***************************************************************************)
DidClose(uri) ==
    /\ uri \in Range(documents)
    /\ documents' = Remove(documents, uri)
    /\ text' = [text EXCEPT ![uri] = "clean"]
    /\ timers' = Freeze(timers, uri)
    /\ compiles' = Freeze(compiles, uri)
    /\ throttlePending' = IF throttlePending = <<>> THEN <<>>
                          ELSE <<FreezeDoc(throttlePending[1], uri)>>
    /\ ev' = Event("close", DocRef(uri, text[uri]),
                   [uri |-> uri, diagnostics |-> <<>>, kind |-> "close"],
                   0, "none", FALSE)
    /\ UNCHANGED ruleVars
    /\ UNCHANGED <<linter, enabledAsYouTypeErrorCheck, validatingDocument,
                   validatingAllDocuments, lastCompileErrorsForDocument, joins,
                   inits, throttleOpen>>

(***************************************************************************)
(* validateCompilation and compileFile.  The compiler is a black box: a    *)
(* call throws synchronously or returns a promise, which later resolves    *)
(* with a diagnostic list or rejects.                                      *)
(***************************************************************************)
\* Mutation: the setting is not consulted.
CompileCheckAlways(enabled) == TRUE

CompileCheckEnabled(enabled) == enabled

\* The debounce timer of a content change fires: validateCompilation(document).
TimerFire(k, threw) ==
    /\ Count(timers, k) > 0
    /\ timers' = Dec(timers, k)
    /\ IF CompileCheckEnabled(enabledAsYouTypeErrorCheck)
       THEN /\ validatingDocument' = TRUE
            /\ IF threw
               THEN /\ compiles' = compiles
                    /\ ev' = Event("timer", DocOf(k), NoMsg, 1, "throw", FALSE)
               ELSE /\ compiles' = Inc(compiles, Compile(k, getText(text, DocOf(k))))
                    /\ ev' = Event("timer", DocOf(k), NoMsg, 1, "none", FALSE)
       ELSE /\ ~threw
            /\ UNCHANGED ruleVars
            /\ UNCHANGED <<validatingDocument, compiles>>
            /\ ev' = Event("timer", DocOf(k), NoMsg, 0, "none", FALSE)
    /\ UNCHANGED ruleVars
    /\ UNCHANGED <<documents, text, linter, enabledAsYouTypeErrorCheck,
                   validatingAllDocuments, lastCompileErrorsForDocument, joins,
                   inits, throttleOpen, throttlePending>>

\* Mutation: the then-chain holds a copy of the document made when the
\* compile was requested.
CycleDocumentAtRequest(k) == DocRef(k.uri, k.code)

\* The document object that the closures of the then-chain captured.
CycleDocument(k) == DocOf(k)

\* Promise.all(compileResults) of pass settles once none of its promises is left.
JoinSettles(pass, rest) == pass \in joins /\ pass \notin PassesIn(rest)

\* The then-chain of validateCompilation on a compile promise that resolved
\* with errors: store, lint, publish, clear the per-document guard.
CompileResolved(k, errors) ==
    /\ Count(compiles, k) > 0
    /\ compiles' = Dec(compiles, k)
    /\ lastCompileErrorsForDocument' = storeCompileErrors(DocOf(k), errors)
    /\ validatingDocument' = FALSE
    /\ validatingAllDocuments' =
           (validatingAllDocuments /\ ~JoinSettles(k.pass, compiles'))
    /\ joins' = IF JoinSettles(k.pass, compiles') THEN joins \ {k.pass} ELSE joins
    /\ ev' = [Event("resolve", DocOf(k),
                    sendDiagnostics(k.uri,
                                    appendLinterErrors(CycleDocument(k), errors),
                                    "compile"),
                    0, "none", FALSE) EXCEPT !.code = k.code]
    /\ UNCHANGED ruleVars
    /\ UNCHANGED <<documents, text, linter, enabledAsYouTypeErrorCheck, timers,
                   inits, throttleOpen, throttlePending>>

\* The same chain on a compile promise that rejected: only the rejection
\* handler of the last then runs.
CompileRejected(k) ==
    /\ Count(compiles, k) > 0
    /\ compiles' = Dec(compiles, k)
    /\ validatingDocument' = FALSE
    /\ validatingAllDocuments' =
           (validatingAllDocuments /\ ~JoinSettles(k.pass, compiles'))
    /\ joins' = IF JoinSettles(k.pass, compiles') THEN joins \ {k.pass} ELSE joins
    /\ ev' = Event("reject", DocOf(k), NoMsg, 0, "reject", FALSE)
    /\ UNCHANGED ruleVars
    /\ UNCHANGED <<documents, text, linter, enabledAsYouTypeErrorCheck,
                   lastCompileErrorsForDocument, timers, inits, throttleOpen,
                   throttlePending>>

(***************************************************************************)
(* validateAllDocuments.  throwAt is the position in documents.all() of    *)
(* the first document whose compile call throws (0: none does).            *)
(***************************************************************************)
\* Mutation: the whole-workspace guard is not consulted.
MayStartAllUnguarded == TRUE

MayStartAll == ~validatingAllDocuments

PassTasks(pass, n) ==
    LET started == {Compile(Task(DocRef(documents[i], "live"), pass),
                            text[documents[i]]) : i \in 1..n}
    IN  [k \in DOMAIN compiles \cup started |->
            Count(compiles, k) + IF k \in started THEN 1 ELSE 0]

validateAllDocuments(enabled, throwAt) ==
    IF ~MayStartAll
    THEN [vd |-> validatingDocument, vad |-> validatingAllDocuments,
          compiles |-> compiles, joins |-> joins,
          invoked |-> 0, fail |-> "none", skipped |-> TRUE]
    ELSE IF ~CompileCheckEnabled(enabled) \/ documents = <<>>
    THEN \* every promise is resolved already: the join clears the guard
         [vd |-> validatingDocument, vad |-> FALSE,
          compiles |-> compiles, joins |-> joins,
          invoked |-> 0, fail |-> "none", skipped |-> FALSE]
    ELSE IF throwAt = 0
    THEN [vd |-> TRUE, vad |-> TRUE,
          compiles |-> PassTasks(FreePass, Len(documents)),
          joins |-> joins \cup {FreePass},
          invoked |-> Len(documents), fail |-> "none", skipped |-> FALSE]
    ELSE \* the exception leaves map(): no Promise.all, the guard stays set
         [vd |-> TRUE, vad |-> TRUE,
          compiles |-> PassTasks(FreePass, throwAt - 1),
          joins |-> joins,
          invoked |-> throwAt, fail |-> "throw", skipped |-> FALSE]

ThrowChoices(enabled) ==
    IF MayStartAll /\ CompileCheckEnabled(enabled) THEN 0..Len(documents) ELSE {0}

ApplyValidateAll(op, r) ==
    /\ FreePasses # {}
    /\ Size(timers) + Size(r.compiles) + inits' <= MaxPending
    /\ validatingDocument' = r.vd
    /\ validatingAllDocuments' = r.vad
    /\ compiles' = r.compiles
    /\ joins' = r.joins
    /\ ev' = Event(op, NoDoc, NoMsg, r.invoked, r.fail, r.skipped)

(***************************************************************************)
(* connection.onDidChangeConfiguration and startValidation                 *)
(***************************************************************************)
LinterFor(linterOption) ==
    CASE linterOption = "solhint" -> "solhint"
      [] linterOption = "solium" -> "solium"
      [] OTHER -> "none"

DidChangeConfiguration(enabled, linterOption) ==
    /\ enabledAsYouTypeErrorCheck' = enabled
    /\ linter' = LinterFor(linterOption)
    /\ IF enabled
       THEN /\ Pending < MaxPending
            /\ inits' = inits + 1
            /\ ev' = Event("config", NoDoc, NoMsg, 0, "none", FALSE)
            /\ UNCHANGED ruleVars
            /\ UNCHANGED <<validatingDocument, validatingAllDocuments, compiles, joins>>
       ELSE /\ inits' = inits
            /\ ApplyValidateAll("config", validateAllDocuments(enabled, 0))
    /\ UNCHANGED ruleVars
    /\ UNCHANGED <<documents, text, lastCompileErrorsForDocument, timers,
                   throttleOpen, throttlePending>>

\* intialiseCompiler(...).then(() => validateAllDocuments())
InitialiseResolved(throwAt) ==
    /\ inits > 0
    /\ inits' = inits - 1
    /\ throwAt \in ThrowChoices(enabledAsYouTypeErrorCheck)
    /\ ApplyValidateAll("initialised",
                        validateAllDocuments(enabledAsYouTypeErrorCheck, throwAt))
    /\ UNCHANGED ruleVars
    /\ UNCHANGED <<documents, text, linter, enabledAsYouTypeErrorCheck,
                   lastCompileErrorsForDocument, timers, throttleOpen,
                   throttlePending>>

InitialiseRejected ==
    /\ inits > 0
    /\ inits' = inits - 1
    /\ ev' = Event("uninitialised", NoDoc, NoMsg, 0, "none", FALSE)
    /\ UNCHANGED ruleVars
    /\ UNCHANGED <<documents, text, linter, enabledAsYouTypeErrorCheck,
                   validatingDocument, validatingAllDocuments,
                   lastCompileErrorsForDocument, timers, compiles, joins,
                   throttleOpen, throttlePending>>

(***************************************************************************)
(* mergeErrors applied to any argument lists.                              *)
(***************************************************************************)
DiagnosticLists ==
    {<<>>, <<"c1">>, <<"c1", "lint-warn">>, <<"lint-warn", "c1">>}

MergeArguments == {Null} \cup {Arr(l) : l \in DiagnosticLists}

ArgumentLists == UNION {[1..n -> MergeArguments] : n \in 0..MaxLists}

MergeErrorsCall(errors) ==
    /\ ev' = [Event("mergeErrors", NoDoc,
                    [uri |-> "", diagnostics |-> mergeErrors(errors), kind |-> "merge"],
                    0, "none", FALSE) EXCEPT !.args = errors]
    /\ UNCHANGED ruleVars
    /\ UNCHANGED <<documents, text, linter, enabledAsYouTypeErrorCheck,
                   validatingDocument, validatingAllDocuments,
                   lastCompileErrorsForDocument, timers, compiles, joins, inits,
                   throttleOpen, throttlePending>>

NextMerge == \E errors \in ArgumentLists : MergeErrorsCall(errors)

SpecMerge == Init /\ [][NextMerge]_vars

(***************************************************************************)
(* src/src/server.ts: the configuration change of the server that knows    *)
(* the legacy settings enabledSolium and soliumRules.  Its validate is     *)
(* synchronous: validateAllDocuments has given both guards back when it    *)
(* returns.                                                                *)
(***************************************************************************)
\* A rule set of the settings, or null/undefined.
RulesArg(r) == [null |-> FALSE, rules |-> r]
NullRules == [null |-> TRUE, rules |-> EmptyRules]

SettingsRules == {NullRules, RulesArg(EmptyRules), RulesArg([k \in {"b"} |-> TRUE])}

\* settings.solidity: enabledSolium is "true", "false" or "undefined"; linter
\* is a linter name or "other" for any other value.
SoliditySettings ==
    [enabledSolium : {"true", "false", "undefined"},
     linter : {"solhint", "solium", "other"},
     soliumRules : SettingsRules,
     linterDefaultRules : SettingsRules,
     enabledAsYouTypeCompilationErrorCheck : BOOLEAN]

\* Mutation: the legacy flag is not consulted.
linterNameOfOptionOnly(settings) == settings.linter

linterName(settings) ==
    IF settings.enabledSolium = "true" THEN "solium" ELSE settings.linter

\* soliumRules || linterDefaultRules
linterRules(settings) ==
    IF linterName(settings) = "solium"
    THEN IF ~settings.soliumRules.null THEN settings.soliumRules
         ELSE settings.linterDefaultRules
    ELSE settings.linterDefaultRules

\* validateAllDocuments of server.ts, from its call to its return.
LegacyValidateAll ==
    /\ validatingDocument' =
           (validatingDocument /\ (validatingAllDocuments \/ documents = <<>>))
    /\ validatingAllDocuments' = validatingAllDocuments

\* The linter is constructed anew and handed linterRules(settings) through
\* setIdeRules, which keeps rules || {}; a SolhintService starts to read its
\* config file.
LegacyDidChangeConfiguration(settings) ==
    /\ enabledAsYouTypeErrorCheck' = settings.enabledAsYouTypeCompilationErrorCheck
    /\ linter' = LinterFor(linterName(settings))
    /\ ideRules' = IF linter' = "none" THEN ideRules
                   ELSE IF linterRules(settings).null THEN EmptyRules
                   ELSE linterRules(settings).rules
    /\ IF linter' = "solhint"
       THEN fileConfig' = EMPTY_CONFIG /\ reads' = 1
       ELSE UNCHANGED <<fileConfig, reads>>
    /\ rev' = IF linter' = "none" THEN rev ELSE "new"
    /\ IF settings.enabledAsYouTypeCompilationErrorCheck
       THEN /\ Pending < MaxPending
            /\ inits' = inits + 1
            /\ UNCHANGED <<validatingDocument, validatingAllDocuments>>
       ELSE /\ inits' = inits
            /\ LegacyValidateAll
    /\ ev' = [Event("legacy config", NoDoc, NoMsg, 0, "none", validatingAllDocuments)
                 EXCEPT !.args = settings]
    /\ UNCHANGED <<DEFAULT_RULES, built>>
    /\ UNCHANGED <<documents, text, lastCompileErrorsForDocument, timers, compiles,
                   joins, throttleOpen, throttlePending>>

\* intialiseCompiler(...).then(() => validateAllDocuments()) of server.ts
LegacyInitialiseResolved ==
    /\ inits > 0
    /\ inits' = inits - 1
    /\ LegacyValidateAll
    /\ ev' = Event("legacy initialised", NoDoc, NoMsg, 0, "none",
                   validatingAllDocuments)
    /\ UNCHANGED ruleVars
    /\ UNCHANGED <<documents, text, linter, enabledAsYouTypeErrorCheck,
                   lastCompileErrorsForDocument, timers, compiles, joins,
                   throttleOpen, throttlePending>>

NextLegacy ==
    \/ \E settings \in SoliditySettings : LegacyDidChangeConfiguration(settings)
    \/ LegacyInitialiseResolved
    \/ InitialiseRejected
    \/ \E data \in FileData : onConfigLoaded(FALSE, data)
    \/ onConfigLoaded(TRUE, Unparsable)

SpecLegacy == Init /\ [][NextLegacy]_vars

(***************************************************************************)
(* The server, driven by notifications about the documents of U with texts *)
(* of T and by configurations naming a linter of L.                        *)
(***************************************************************************)
Step(U, T, L) ==
    \/ \E uri \in U, t \in T : DidOpen(uri, t)
    \/ \E uri \in U, t \in T : DidChangeContent(uri, t)
    \/ \E uri \in U : DidClose(uri)
    \/ ThrottleWindowEnd
    \/ \E k \in Tasks, threw \in BOOLEAN : TimerFire(k, threw)
    \/ \E k \in Compiles, errors \in CompileOutputs : CompileResolved(k, errors)
    \/ \E k \in Compiles : CompileRejected(k)
    \/ \E enabled \in BOOLEAN, linterOption \in L :
           DidChangeConfiguration(enabled, linterOption)
    \/ \E throwAt \in 0..Cardinality(U) : InitialiseResolved(throwAt)
    \/ InitialiseRejected

\* One document, with every text and under every linter.
Next == Step({"file:///a.sol"}, Texts, LinterNames)

Spec == Init /\ [][Next]_vars

SpecRules == Init /\ [][NextRules]_vars

\* The guards and the compiler calls depend on no text and on no lint
\* result: one text, every linter.
NextGuards == Step({"file:///a.sol"}, {"clean"}, LinterNames)

SpecGuards == Init /\ [][NextGuards]_vars

\* The validation cycles of a document that is linted: every text, one linter.
NextCycle == Step({"file:///a.sol"}, Texts, {"solhint"})

SpecCycle == Init /\ [][NextCycle]_vars

\* Two documents: a.sol through its whole life, b.sol opened beside it.
NextCache ==
    \/ \E uri \in Uris : DidOpen(uri, "clean")
    \/ DidChangeContent("file:///a.sol", "clean")
    \/ DidClose("file:///a.sol")
    \/ ThrottleWindowEnd
    \/ \E k \in Tasks, threw \in BOOLEAN : TimerFire(k, threw)
    \/ \E k \in Compiles, errors \in CompileOutputs : CompileResolved(k, errors)
    \/ \E k \in Compiles : CompileRejected(k)
    \/ \E enabled \in BOOLEAN : DidChangeConfiguration(enabled, "solhint")
    \/ \E throwAt \in 0..Cardinality(Uris) : InitialiseResolved(throwAt)
    \/ InitialiseRejected

SpecCache == Init /\ [][NextCache]_vars

(***************************************************************************)
(* Properties of the diagnostic pipeline.                                  *)
(***************************************************************************)
EditCompileInFlight == \E k \in DOMAIN compiles : k.pass = 0

PassInFlight == validatingAllDocuments /\ PassesIn(compiles) # {}

\* The step called validateAllDocuments, unless it is a configuration change
\* that enabled the compile check (which defers the call).
ValidateAllStep(e) == e.op \in {"config", "initialised"}

\* The step called validateCompilation, by itself or from validateAllDocuments.
ValidationStep(e) == e.op = "timer" \/ ValidateAllStep(e)

\* C1: every publish that is not the one of a close carries the compile
\* diagnostics of the document's path followed by the lint diagnostics of
\* the document.
C1_PublishIsCompileThenLint ==
    ev.sent.kind \in {"lint", "compile"} =>
        ev.sent.diagnostics = lastCompileErrorsOf(ev.doc) \o lintFile(text, ev.doc)

\* C2: closing a document publishes an empty list for its URI and leaves no
\* compile diagnostics cached for its path, which a publish after a re-open
\* would carry.
C2_CloseDropsCacheEntry ==
    ev.op = "close" =>
        /\ ev.sent = [uri |-> ev.doc.uri, diagnostics |-> <<>>, kind |-> "close"]
        /\ lastCompileErrorsOf(ev.doc) = <<>>

\* C3: a compile started by a content change and a whole-workspace pass are
\* never in flight together.
C3_NoEditCompileDuringPass == ~(EditCompileInFlight /\ PassInFlight)

\* C4: at most one whole-workspace pass is active, and validateAllDocuments
\* called while its guard is set starts no compile and changes no guard.
C4_OnePassAtATime ==
    /\ [](Cardinality(ActivePasses) <= 1)
    /\ [][(validatingAllDocuments /\ ValidateAllStep(ev'))
            => UNCHANGED <<compiles, joins, validatingDocument,
                           validatingAllDocuments>>]_vars

\* C4 witness: validateAllDocuments was called and found its guard set while
\* the compiles of a pass were unsettled.
C4_Witness == ev.skipped /\ PassInFlight

\* C5: the whole-workspace guard is set exactly as long as a compile that a
\* pass started is unsettled.
C5_GuardHeldWhilePassUnsettled == validatingAllDocuments <=> PassesIn(compiles) # {}

\* C6: after a compile of a document failed, the cache holds no diagnostics
\* for the document's path.
C6_FailedCompileEmptiesEntry ==
    ev.op = "reject" => lastCompileErrorsOf(ev.doc) = <<>>

\* C7: after a compile failed, by rejection or by a synchronous throw, the
\* per-document guard is clear, and so is the whole-workspace guard unless
\* compiles of the pass are still unsettled.
C7_FailureClearsGuards ==
    ev.fail # "none" =>
        /\ ~validatingDocument
        /\ PassesIn(compiles) = {} => ~validatingAllDocuments

\* C8: once the debounce timer of a content change has fired and no timer or
\* compile is outstanding, the per-document guard is clear.
C8_CycleClearsGuard ==
    (ev.op = "timer" /\ ev.fail = "none" /\ Size(timers) = 0 /\ Size(compiles) = 0)
        => ~validatingDocument

\* C9: while the as-you-type compile check is disabled, a step that calls
\* validateCompilation (from a timer or from validateAllDocuments) does not
\* call the compiler, starts no compile and leaves the cache unchanged.
C9_DisabledCheckCompilesNothing ==
    [][(ValidationStep(ev') /\ ~enabledAsYouTypeErrorCheck')
        => /\ ev'.invoked = 0
           /\ UNCHANGED <<compiles, lastCompileErrorsForDocument>>]_vars

\* C9 witness: a debounce timer fired with the check disabled after an
\* earlier compile had stored diagnostics.
C9_Witness ==
    /\ ev.op = "timer"
    /\ ~enabledAsYouTypeErrorCheck
    /\ \E p \in DOMAIN lastCompileErrorsForDocument :
           lastCompileErrorsForDocument[p] # <<>>

\* C10: build() returns the built-in defaults overridden by the current IDE
\* rules, overridden by the current file rules.
C10_BuildIsMergeOfLayers ==
    rev = "build" =>
        built = Assign(Assign(BuiltInDefaults, ideRules), RulesOf(fileConfig))

\* C11: for every rule key, build() returns the value of the file rules if
\* they hold the key, otherwise that of the IDE rules if they hold it,
\* otherwise the built-in default (no value for a key without a default).
C11_FileOverIdeOverDefault ==
    rev = "build" =>
        \A k \in RuleKeys :
            IF k \in DOMAIN RulesOf(fileConfig)
            THEN k \in DOMAIN built /\ built[k] = RulesOf(fileConfig)[k]
            ELSE IF k \in DOMAIN ideRules
            THEN k \in DOMAIN built /\ built[k] = ideRules[k]
            ELSE IF k \in DOMAIN BuiltInDefaults
            THEN k \in DOMAIN built /\ built[k] = BuiltInDefaults[k]
            ELSE k \notin DOMAIN built

\* C12: the first build() of a linter that a configuration change has just
\* constructed returns what the built-in defaults, its IDE rules and its file
\* config determine, whatever was set through the instance it replaced.
C12_NewInstanceSeesNoOldRules ==
    [][(rev = "new" /\ rev' = "build")
        => built' = Assign(Assign(BuiltInDefaults, ideRules'), RulesOf(fileConfig'))]_vars

\* C13: a load of a missing, unreadable or unparsable config file raises no
\* error in the load callback, and with the file layer it leaves build()
\* raises none and returns a rule set that has the defaults' keys and the
\* IDE rules.
C13_BadFileIsEmptyOverride ==
    /\ rev # "onConfigLoaded threw"
    /\ fileConfig = FailedConfig => rev # "build threw"
    /\ (rev = "build" /\ fileConfig = FailedConfig) =>
           /\ DOMAIN BuiltInDefaults \subseteq DOMAIN built
           /\ \A k \in DOMAIN ideRules : k \in DOMAIN built /\ built[k] = ideRules[k]

EntryOf(cache, p) == IF p \in DOMAIN cache THEN <<cache[p]>> ELSE <<>>

\* C15: the cache entry of a path changes only in a step in which a compile
\* of the document at that path settles and stores its result: a lint
\* publish, a close, and the compile of another path leave it as it is.
C15_EntryChangesOnlyByOwnCompile ==
    [][\A p \in Paths :
          EntryOf(lastCompileErrorsForDocument', p)
              # EntryOf(lastCompileErrorsForDocument, p)
          => (ev'.op = "resolve" /\ fileOf(ev'.doc.uri) = p)]_vars

\* C15 witness: the compile of one document settled and stored an empty list
\* while the other path's entry held diagnostics.
C15_Witness ==
    /\ ev.op = "resolve"
    /\ lastCompileErrorsOf(ev.doc) = <<>>
    /\ \E p \in DOMAIN lastCompileErrorsForDocument :
           p # fileOf(ev.doc.uri) /\ lastCompileErrorsForDocument[p] = <<"c1">>

\* C16: every content change calls the throttled lint, whatever the guards:
\* outside a window the lint of the new text is published at once, inside a
\* window the call becomes the one coalesced call; a coalesced call leaves
\* only by a later call for the document taking its place or by the end of
\* the window, which publishes once, with the lint of the document's text
\* as the last call left it.
C16_ThrottledLintCoalesces ==
    /\ [][ev'.op \in {"open", "change"} =>
             IF throttleOpen
             THEN throttlePending' = <<ev'.doc>> /\ ev'.sent = NoMsg
             ELSE ev'.sent = sendDiagnostics(ev'.doc.uri,
                                             <<Arr(lintFile(text', ev'.doc)),
                                               Arr(lastCompileErrorsOf(ev'.doc))>>,
                                             "lint")]_vars
    /\ [][throttlePending # <<>> =>
             \/ /\ throttlePending' # <<>>
                /\ throttlePending'[1].uri = throttlePending[1].uri
             \/ /\ ev'.op = "throttle"
                /\ ev'.sent = sendDiagnostics(
                                  throttlePending[1].uri,
                                  <<Arr(lintFile(text, throttlePending[1])),
                                    Arr(lastCompileErrorsOf(throttlePending[1]))>>,
                                  "lint")]_vars

\* C16 witness: a window ended with a coalesced call and published the lint
\* of the text "warn" while both guards were set.
C16_Witness ==
    /\ ev.op = "throttle"
    /\ ev.doc.snap = "live"
    /\ ev.sent.kind = "lint"
    /\ ev.sent.diagnostics = <<"lint-warn">>
    /\ validatingDocument
    /\ validatingAllDocuments

\* C17: after a configuration change of server.ts the linter is solium when
\* enabledSolium is true, whatever the linter option, and otherwise the one
\* the linter option names (none for any other value); the IDE rules of a
\* solium linter are soliumRules when the settings hold them, and
\* linterDefaultRules otherwise, as they are for a solhint linter.
C17_LegacyFlagForcesSolium ==
    ev.op = "legacy config" =>
        LET settings == ev.args
            defaults == IF settings.linterDefaultRules.null THEN EmptyRules
                        ELSE settings.linterDefaultRules.rules
        IN  /\ settings.enabledSolium = "true" => linter = "solium"
            /\ settings.enabledSolium # "true" =>
                   linter = (CASE settings.linter = "solhint" -> "solhint"
                               [] settings.linter = "solium" -> "solium"
                               [] OTHER -> "none")
            /\ linter = "solium" =>
                   ideRules = IF settings.soliumRules.null THEN defaults
                              ELSE settings.soliumRules.rules
            /\ linter = "solhint" => ideRules = defaults

\* C17 witness: the settings named solhint and set enabledSolium, with
\* soliumRules unlike linterDefaultRules; the linter is solium with
\* soliumRules.
C17_Witness ==
    /\ ev.op = "legacy config"
    /\ ev.args.enabledSolium = "true"
    /\ ev.args.linter = "solhint"
    /\ ~ev.args.soliumRules.null
    /\ ev.args.soliumRules # ev.args.linterDefaultRules
    /\ linter = "solium"
    /\ ideRules = ev.args.soliumRules.rules

\* C18: at most one debounce timer is pending, overall and so for each
\* document: no content change adds a timer to one that is pending.
C18_OneTimerPending == Size(timers) <= 1

\* The entries of the lists of args that are neither null nor empty, list
\* after list in the order of args.
RECURSIVE KeptInOrder(_)
KeptInOrder(args) ==
    IF args = <<>> THEN <<>>
    ELSE LET first == args[1]
             rest == KeptInOrder(SubSeq(args, 2, Len(args)))
         IN  IF first.null \/ first.list = <<>> THEN rest ELSE first.list \o rest

\* C19: mergeErrors returns the entries of its arguments that are neither
\* null nor empty, argument after argument and in the order they have in
\* each, and nothing else (no entry for a null argument).
C19_MergeIsConcatOfKept ==
    ev.op = "mergeErrors" =>
        /\ ev.sent.diagnostics = KeptInOrder(ev.args)
        /\ \A i \in 1..Len(ev.sent.diagnostics) : ev.sent.diagnostics[i] # "null"

\* C19 witness: a call with a two-entry list, null, an empty list and a
\* one-entry list returned the three entries in order.
C19_Witness ==
    /\ ev.op = "mergeErrors"
    /\ Len(ev.args) = 3
    /\ ev.args[1] = Arr(<<"lint-warn", "c1">>)
    /\ ev.args[2] = Null
    /\ ev.args[3] = Arr(<<"c1">>)
    /\ ev.sent.diagnostics = <<"lint-warn", "c1", "c1">>

\* C20: while a document is closed, no validateCompilation cycle that was
\* under way when it closed publishes a non-empty list for its URI or leaves
\* diagnostics in the cache for it.
C20_NothingPublishedForClosed ==
    (ev.op = "resolve" /\ ev.doc.uri \notin Range(documents)) =>
        /\ ev.sent.diagnostics = <<>>
        /\ lastCompileErrorsOf(ev.doc) = <<>>

\* C21: when both guards are clear, no debounce timer is pending and no
\* compile is unsettled.
C21_ClearGuardsMeanNothingOutstanding ==
    (~validatingDocument /\ ~validatingAllDocuments)
        => (Size(timers) = 0 /\ Size(compiles) = 0)

====
